---- MODULE Spec2Model ----
(***************************************************************************)
(* Model of src/src/pages/Dashboard.tsx: the Dashboard component, its      *)
(* on-mount session check (checkUser), its sign-out handler (handleLogout) *)
(* and its role-conditioned render.                                        *)
(*                                                                         *)
(* JavaScript runs each continuation to completion, so every action below  *)
(* is one synchronous run of the code between two awaits.  The Session     *)
(* Gateway (supabase) and the router are the environment: the gateway      *)
(* chooses how each pending request settles, the router chooses when the   *)
(* component is unmounted.                                                 *)
(*                                                                         *)
(* user, profile and loading hold the last value handed to the setter of   *)
(* the useState cell; `mounted` says whether the component is on screen.   *)
(***************************************************************************)
EXTENDS Integers, Sequences, FiniteSets, TLC

VARIABLES
    user,           \* useState<User | null>            (line 18)
    profile,        \* useState<UserProfile | null>     (line 19)
    loading,        \* useState(true)                   (line 20)
    pc,             \* position of checkUser: "init", "getSession", "getProfile", "done"
    sessionResult,  \* how getSession() settled: "pending", "absent", "present", "thrown"
    profileResult,  \* how the profile query settled: "none", "pending", "row", "error", "thrown"
    effects,        \* what checkUser did, in program order
    mounted,        \* the component is mounted
    location,       \* the router's current path
    signOutCalls,   \* calls of handleLogout so far
    signOutPending, \* signOut() promises not yet settled
    logoutLog       \* one record per settled signOut(): what the gateway reported, what the handler did

vars == <<user, profile, loading, pc, sessionResult, profileResult, effects,
          mounted, location, signOutCalls, signOutPending, logoutLog>>

----------------------------------------------------------------------------
(* Bounds and the data the gateway can hand out *)

MaxLogouts == 2

UserIds == {"u1", "u2"}

Email(id) == IF id = "u1" THEN "a@x.com" ELSE "b@y.com"

\* session.user, as far as the component reads it (id, email)
SessionUsers == {[id |-> i, email |-> Email(i)] : i \in UserIds}

Roles == {"admin", "operator", "requester"}

FullNames == {"Ana", ""}

\* the rows `.eq('id', id).single()` can return: the row's id is the queried id
ProfileRows(id) ==
    {[id |-> id, email |-> Email(id), full_name |-> n, user_type |-> r] :
        n \in FullNames, r \in Roles}

\* null of a `T | null` cell; a present value x is <<x>>
null == <<>>

Some(x) == <<x>>

DashboardRoute == "/dashboard"

LoginRoute == "/login"

\* one entry of checkUser's effects: the call, its argument, and whether the
\* component was still mounted when the call was made
Effect(op, arg) == [op |-> op, arg |-> arg, mounted |-> mounted]

----------------------------------------------------------------------------
(* Render: lines 75-245, a function of the state cells *)

\* profile?.user_type
UserType == IF profile = null THEN "undefined" ELSE profile[1].user_type

\* lines 75-83: the placeholder while loading, the dashboard content otherwise
View == IF loading THEN "Carregando..." ELSE "content"

\* line 90: profile?.full_name || user?.email  ("" is falsy, undefined renders nothing)
WelcomeName ==
    IF profile # null /\ profile[1].full_name # "" THEN profile[1].full_name
    ELSE IF user # null THEN user[1].email
    ELSE ""

\* lines 91-96
RoleBadge ==
    IF profile = null THEN "none"
    ELSE IF profile[1].user_type = "admin" THEN "Administrador"
    ELSE IF profile[1].user_type = "operator" THEN "Operador"
    ELSE "Requisitante"

\* line 160
ShowRegisterMachine == UserType = "admin" \/ UserType = "operator"

ShowPersonnel_Operator == UserType = "admin" \/ UserType = "operator"

\* line 174
ShowPersonnel == UserType = "admin"

\* line 201
ShowRequesters == UserType = "admin" \/ UserType = "operator"

\* lines 104-242: the cards and the gated button of the grid
VisibleTiles ==
    {"WorkOrders", "Backlog", "Machines", "Metrics"}
        \cup (IF ShowRegisterMachine THEN {"RegisterMachine"} ELSE {})
        \cup (IF ShowPersonnel THEN {"Personnel"} ELSE {})
        \cup (IF ShowRequesters THEN {"Requesters"} ELSE {})

\* the navigate() targets of the buttons that are rendered
TileRoutes ==
    {"/work-orders", "/work-orders/new", "/backlog", "/machines", "/metrics"}
        \cup (IF ShowRegisterMachine THEN {"/machines/new"} ELSE {})
        \cup (IF ShowPersonnel THEN {"/personnel", "/personnel/new"} ELSE {})
        \cup (IF ShowRequesters THEN {"/requesters", "/requesters/new"} ELSE {})

----------------------------------------------------------------------------
(* Toasts of handleLogout *)

SuccessToast ==
    [title |-> "Logout realizado",
     description |-> "Você foi desconectado com sucesso",
     variant |-> "default"]

ErrorToast ==
    [title |-> "Erro", description |-> "Erro ao fazer logout", variant |-> "destructive"]

----------------------------------------------------------------------------
(* State after construction: lines 18-22, before the mount effect has run *)

Init ==
    /\ user = null
    /\ profile = null
    /\ loading = TRUE
    /\ pc = "init"
    /\ sessionResult = "pending"
    /\ profileResult = "none"
    /\ effects = <<>>
    /\ mounted = TRUE
    /\ location = DashboardRoute
    /\ signOutCalls = 0
    /\ signOutPending = 0
    /\ logoutLog = <<>>

----------------------------------------------------------------------------
(* checkUser *)

\* lines 24-30: the mount effect calls checkUser, which runs up to its first await
useEffect ==
    /\ pc = "init"
    /\ effects' = Append(effects, Effect("getSession", ""))
    /\ pc' = "getSession"
    /\ UNCHANGED <<user, profile, loading, sessionResult, profileResult, mounted,
                   location, signOutCalls, signOutPending, logoutLog>>

GetSessionAbsent_FallThrough ==
    /\ pc = "getSession"
    /\ sessionResult' = "absent"
    /\ location' = LoginRoute
    /\ effects' = effects \o <<Effect("navigate", LoginRoute),
                               Effect("getProfile", "undefined")>>
    /\ pc' = "getProfile"
    /\ profileResult' = "pending"
    /\ UNCHANGED <<user, profile, loading, mounted, signOutCalls, signOutPending, logoutLog>>

\* lines 30-35, 53-55: getSession() resolves without a session (session is null,
\* also when the gateway resolves with { data: { session: null }, error });
\* navigate, return, and the finally block
GetSessionAbsent ==
    /\ pc = "getSession"
    /\ sessionResult' = "absent"
    /\ location' = LoginRoute
    /\ loading' = FALSE
    /\ effects' = effects \o <<Effect("navigate", LoginRoute),
                               Effect("setLoading", "false")>>
    /\ pc' = "done"
    /\ UNCHANGED <<user, profile, profileResult, mounted, signOutCalls,
                   signOutPending, logoutLog>>

GetSessionPresent_WrongKey(u) ==
    /\ pc = "getSession"
    /\ sessionResult' = "present"
    /\ user' = Some(u)
    /\ effects' = effects \o <<Effect("setUser", u.id),
                               Effect("getProfile", CHOOSE i \in UserIds : i # u.id)>>
    /\ profileResult' = "pending"
    /\ pc' = "getProfile"
    /\ UNCHANGED <<profile, loading, mounted, location, signOutCalls,
                   signOutPending, logoutLog>>

\* lines 30-44: getSession() resolves with a session; setUser, then the profile
\* query keyed by session.user.id is issued and awaited
GetSessionPresent(u) ==
    /\ pc = "getSession"
    /\ sessionResult' = "present"
    /\ user' = Some(u)
    /\ effects' = effects \o <<Effect("setUser", u.id), Effect("getProfile", u.id)>>
    /\ profileResult' = "pending"
    /\ pc' = "getProfile"
    /\ UNCHANGED <<profile, loading, mounted, location, signOutCalls,
                   signOutPending, logoutLog>>

GetSessionThrows_Retry ==
    /\ pc = "getSession"
    /\ effects' = effects \o <<Effect("console.error", "Error checking user:"),
                               Effect("getSession", "")>>
    /\ UNCHANGED <<user, profile, loading, pc, sessionResult, profileResult, mounted,
                   location, signOutCalls, signOutPending, logoutLog>>

GetSessionThrows_NoFinally ==
    /\ pc = "getSession"
    /\ sessionResult' = "thrown"
    /\ effects' = Append(effects, Effect("console.error", "Error checking user:"))
    /\ pc' = "done"
    /\ UNCHANGED <<user, profile, loading, profileResult, mounted, location,
                   signOutCalls, signOutPending, logoutLog>>

\* lines 30, 51-55: getSession() rejects; catch logs, finally clears loading
GetSessionThrows ==
    /\ pc = "getSession"
    /\ sessionResult' = "thrown"
    /\ loading' = FALSE
    /\ effects' = effects \o <<Effect("console.error", "Error checking user:"),
                               Effect("setLoading", "false")>>
    /\ pc' = "done"
    /\ UNCHANGED <<user, profile, profileResult, mounted, location, signOutCalls,
                   signOutPending, logoutLog>>

\* the id the pending profile query was issued with
QueriedId == effects[Len(effects)].arg

\* lines 40-50, 53-55: the query resolves with a row; setProfile, finally
ProfileRow(row) ==
    /\ pc = "getProfile"
    /\ row \in ProfileRows(QueriedId)
    /\ profileResult' = "row"
    /\ profile' = Some(row)
    /\ loading' = FALSE
    /\ effects' = effects \o <<Effect("setProfile", row.id), Effect("setLoading", "false")>>
    /\ pc' = "done"
    /\ UNCHANGED <<user, sessionResult, mounted, location, signOutCalls,
                   signOutPending, logoutLog>>

ProfileError_Fatal ==
    /\ pc = "getProfile"
    /\ profileResult' = "error"
    /\ effects' = Append(effects, Effect("console.error", "Error fetching profile:"))
    /\ pc' = "done"
    /\ UNCHANGED <<user, profile, loading, sessionResult, mounted, location,
                   signOutCalls, signOutPending, logoutLog>>

\* lines 40-47, 53-55: the query resolves with { error }; log, finally
ProfileError ==
    /\ pc = "getProfile"
    /\ profileResult' = "error"
    /\ loading' = FALSE
    /\ effects' = effects \o <<Effect("console.error", "Error fetching profile:"),
                               Effect("setLoading", "false")>>
    /\ pc' = "done"
    /\ UNCHANGED <<user, profile, sessionResult, mounted, location, signOutCalls,
                   signOutPending, logoutLog>>

\* lines 40-44, 51-55: the query rejects; catch logs, finally
ProfileThrows ==
    /\ pc = "getProfile"
    /\ profileResult' = "thrown"
    /\ loading' = FALSE
    /\ effects' = effects \o <<Effect("console.error", "Error checking user:"),
                               Effect("setLoading", "false")>>
    /\ pc' = "done"
    /\ UNCHANGED <<user, profile, sessionResult, mounted, location, signOutCalls,
                   signOutPending, logoutLog>>

----------------------------------------------------------------------------
(* handleLogout *)

\* lines 58-60, 99: a click on "Sair" (rendered only with the content) calls
\* signOut() and suspends
handleLogout ==
    /\ mounted
    /\ View = "content"
    /\ signOutCalls < MaxLogouts
    /\ signOutCalls' = signOutCalls + 1
    /\ signOutPending' = signOutPending + 1
    /\ UNCHANGED <<user, profile, loading, pc, sessionResult, profileResult, effects,
                   mounted, location, logoutLog>>

\* lines 60-65: signOut() resolves; its value ({ error: null } or { error }) is
\* discarded, so both go on to navigate and the success toast
SignOutResolves(reported) ==
    /\ signOutPending > 0
    /\ signOutPending' = signOutPending - 1
    /\ location' = LoginRoute
    /\ logoutLog' = Append(logoutLog,
            [reported |-> reported, navigated |-> TRUE, toast |-> SuccessToast])
    /\ UNCHANGED <<user, profile, loading, pc, sessionResult, profileResult, effects,
                   mounted, signOutCalls>>

\* lines 60, 66-72: signOut() rejects; the error toast, no navigate
SignOutRejects ==
    /\ signOutPending > 0
    /\ signOutPending' = signOutPending - 1
    /\ logoutLog' = Append(logoutLog,
            [reported |-> "thrown", navigated |-> FALSE, toast |-> ErrorToast])
    /\ UNCHANGED <<user, profile, loading, pc, sessionResult, profileResult, effects,
                   mounted, location, signOutCalls>>

----------------------------------------------------------------------------
(* The router and React *)

\* lines 113-239: a click on a rendered navigation button
TileNavigate(route) ==
    /\ mounted
    /\ View = "content"
    /\ route \in TileRoutes
    /\ location # route
    /\ location' = route
    /\ UNCHANGED <<user, profile, loading, pc, sessionResult, profileResult, effects,
                   mounted, signOutCalls, signOutPending, logoutLog>>

Unmount_Cancels ==
    /\ mounted
    /\ pc # "init"
    /\ mounted' = FALSE
    /\ pc' = "done"
    /\ signOutPending' = 0
    /\ UNCHANGED <<user, profile, loading, sessionResult, profileResult, effects,
                   location, signOutCalls, logoutLog>>

\* lines 24-26: the effect returns no cleanup, so unmounting the component
\* touches neither checkUser nor a pending signOut()
Unmount ==
    /\ mounted
    /\ pc # "init"
    /\ mounted' = FALSE
    /\ UNCHANGED <<user, profile, loading, pc, sessionResult, profileResult, effects,
                   location, signOutCalls, signOutPending, logoutLog>>

----------------------------------------------------------------------------

GetSessionSettles ==
    \/ GetSessionAbsent
    \/ \E u \in SessionUsers : GetSessionPresent(u)
    \/ GetSessionThrows

ProfileSettles ==
    \/ \E id \in UserIds : \E row \in ProfileRows(id) : ProfileRow(row)
    \/ ProfileError
    \/ ProfileThrows

Next ==
    \/ useEffect
    \/ GetSessionAbsent
    \/ \E u \in SessionUsers : GetSessionPresent(u)
    \/ GetSessionThrows
    \/ \E id \in UserIds : \E row \in ProfileRows(id) : ProfileRow(row)
    \/ ProfileError
    \/ ProfileThrows
    \/ handleLogout
    \/ \E reported \in {"success", "error"} : SignOutResolves(reported)
    \/ SignOutRejects
    \/ \E route \in TileRoutes : TileNavigate(route)
    \/ Unmount

Spec == Init /\ [][Next]_vars

\* React runs the mount effect after the first commit, and every gateway
\* request eventually resolves or rejects
FairSpec ==
    /\ Spec
    /\ WF_vars(useEffect)
    /\ WF_vars(GetSessionSettles)
    /\ WF_vars(ProfileSettles)

----------------------------------------------------------------------------
(* Properties *)

\* positions in checkUser's effects of the calls named op
Ops(op) == {i \in 1..Len(effects) : effects[i].op = op}

SessionInFlight == Ops("getSession") # {} /\ sessionResult = "pending"

ProfileInFlight == Ops("getProfile") # {} /\ profileResult = "pending"

UngatedTiles == {"WorkOrders", "Backlog", "Machines", "Metrics"}

\* C1: for every settled signOut(), whatever the gateway reported: the handler
\* redirected to /login iff the gateway reported success, showed the success
\* toast exactly when it reported success, and the error toast exactly when it
\* reported failure (returned or thrown), then without a redirect.
C1_SignOutFollowsGateway ==
    \A i \in 1..Len(logoutLog) :
        LET e == logoutLog[i] IN
        /\ e.navigated <=> e.reported = "success"
        /\ e.toast = SuccessToast <=> e.reported = "success"
        /\ e.toast = ErrorToast <=> e.reported # "success"

\* C2: when getSession() raises, the failure is logged and handled like an
\* absent session: a redirect to /login and no profile request.
C2_SessionErrorRedirects ==
    sessionResult = "thrown" =>
        /\ \E i \in Ops("console.error") : effects[i].arg = "Error checking user:"
        /\ \E i \in Ops("navigate") : effects[i].arg = LoginRoute
        /\ Ops("getProfile") = {}

\* C3: once the gateway has returned no session, the redirect to /login has
\* been issued and no profile request is issued in that mount, then or later.
C3_NoSessionNoProfileRequest ==
    sessionResult = "absent" =>
        /\ \E i \in Ops("navigate") : effects[i].arg = LoginRoute
        /\ Ops("getProfile") = {}
        /\ profileResult = "none"

C3_Witness ==
    /\ sessionResult = "absent"
    /\ pc = "done"
    /\ location = LoginRoute

\* C4: in every resolved state with a session and a fetched profile of role r,
\* the four ungated tiles are visible, Register Machine iff r is admin or
\* operator, Personnel iff r is admin, Requesters iff r is admin or operator.
C4_TilesByRole ==
    (~loading /\ sessionResult = "present" /\ profileResult = "row") =>
        LET r == profile[1].user_type IN
        /\ r \in Roles
        /\ UngatedTiles \subseteq VisibleTiles
        /\ "RegisterMachine" \in VisibleTiles <=> r \in {"admin", "operator"}
        /\ "Personnel" \in VisibleTiles <=> r = "admin"
        /\ "Requesters" \in VisibleTiles <=> r \in {"admin", "operator"}

C4_Witness ==
    /\ ~loading
    /\ mounted
    /\ sessionResult = "present"
    /\ profileResult = "row"
    /\ profile[1].user_type = "operator"
    /\ VisibleTiles = UngatedTiles \cup {"RegisterMachine", "Requesters"}

\* C5: with a session whose profile lookup failed, the view has left loading
\* and renders the content, the profile is unset, the header shows the
\* session's email, there is no badge, and exactly the four ungated tiles show.
C5_ProfileFailureDegrades ==
    (sessionResult = "present" /\ profileResult \in {"error", "thrown"}) =>
        /\ ~loading
        /\ View = "content"
        /\ profile = null
        /\ user # null
        /\ WelcomeName = user[1].email
        /\ RoleBadge = "none"
        /\ VisibleTiles = UngatedTiles

C5_Witness ==
    /\ sessionResult = "present"
    /\ profileResult = "error"
    /\ mounted
    /\ WelcomeName = "b@y.com"

\* C6: unauthenticated is terminal: the redirect issued when no session is
\* found is the last thing checkUser does, and the dashboard content is
\* rendered only when a session was found.
C6_UnauthenticatedTerminal ==
    /\ sessionResult = "absent" => \A i \in Ops("navigate") : i = Len(effects)
    /\ sessionResult = "absent" => loading
    /\ (mounted /\ View = "content") => sessionResult = "present"

\* C7: the profile lookup is issued only after the session check returned a
\* session, the two requests are never in flight together, and each is issued
\* at most once per mount.
C7_SequentialNoRetry ==
    /\ Cardinality(Ops("getSession")) <= 1
    /\ Cardinality(Ops("getProfile")) <= 1
    /\ Ops("getProfile") # {} => sessionResult = "present"
    /\ \A i \in Ops("getProfile") : \A j \in Ops("getSession") : j < i
    /\ ~(SessionInFlight /\ ProfileInFlight)
    /\ pc = "done" => ~SessionInFlight /\ ~ProfileInFlight

C7_Witness ==
    /\ pc = "done"
    /\ Cardinality(Ops("getSession")) = 1
    /\ Cardinality(Ops("getProfile")) = 1
    /\ profileResult = "thrown"

\* C8: every mount eventually leaves loading; the placeholder is what the
\* component renders exactly while loading; loading is false exactly when the
\* mount check has finished; once false it never becomes true again.
C8_LoadingEnds ==
    /\ <>(~loading)
    /\ [](View = "Carregando..." <=> loading)
    /\ [](~loading <=> pc = "done")
    /\ [][~loading => ~loading']_vars

C8_Witness ==
    /\ ~loading
    /\ pc = "done"
    /\ sessionResult = "thrown"
    /\ View = "content"

\* C9: unmounting cancels nothing: the unmount step leaves checkUser and the
\* pending sign-outs as they were, a pending request can still settle, and a
\* continuation that runs after the unmount performs all its calls.
C9_UnmountCancelsNothing ==
    /\ [][(mounted /\ ~mounted') =>
            (pc' = pc /\ signOutPending' = signOutPending /\ effects' = effects)]_vars
    /\ [](pc = "getSession" => ENABLED GetSessionSettles)
    /\ [](pc = "getProfile" => ENABLED ProfileSettles)
    /\ [][(~mounted /\ pc' # pc) =>
            /\ Len(effects') > Len(effects)
            /\ \A i \in (Len(effects) + 1)..Len(effects') : ~effects'[i].mounted]_vars

C9_Witness ==
    /\ ~mounted
    /\ pc = "done"
    /\ \E i \in Ops("getProfile") : ~effects[i].mounted
    /\ \E i \in Ops("setUser") : ~effects[i].mounted
    /\ \E i \in Ops("setProfile") : ~effects[i].mounted
    /\ \E i \in Ops("setLoading") : ~effects[i].mounted
    /\ user # null /\ profile # null /\ ~loading

\* C10: a profile is only ever held together with a user, and is the row of a
\* successful lookup keyed by that user's id; user and profile are null once
\* the session check returned no session or failed; no step of sign-out
\* changes user, profile or loading.
C10_StateConsistency ==
    /\ [](profile # null =>
            /\ user # null
            /\ profileResult = "row"
            /\ profile[1].id = user[1].id
            /\ \A i \in Ops("getProfile") : effects[i].arg = user[1].id)
    /\ [](sessionResult \in {"absent", "thrown"} => user = null /\ profile = null)
    /\ [][(signOutCalls' # signOutCalls \/ signOutPending' # signOutPending
             \/ logoutLog' # logoutLog) =>
            UNCHANGED <<user, profile, loading>>]_vars

C10_Witness ==
    /\ profile # null
    /\ Len(logoutLog) = 2
    /\ logoutLog[1].reported = "thrown"
    /\ logoutLog[2].reported = "success"

====
